---------------------------- MODULE Spec2Model ----------------------------
(***************************************************************************)
(* A model of the pose-challenge application (src/src/App.tsx): the React  *)
(* component state of App, its event handlers and effects, the similarity  *)
(* scorer calculateSimilarity and the skeleton renderer drawPose.          *)
(*                                                                         *)
(* Numbers.  Coordinates are integer pixels.  Confidences are hundredths   *)
(* (score 0.3 is 30, so "score > 0.3" is "score > 30").  Distances are     *)
(* kept exactly: every pair of positions the inputs are drawn from has an  *)
(* integer pixel distance (see PosTable), so Math.sqrt is exact on them    *)
(* and the remaining arithmetic is done on fractions <<num, den>>.         *)
(*                                                                         *)
(* React.  State updates made by one handler run (one macrotask with the   *)
(* microtasks it triggers) are committed together (automatic batching of   *)
(* React 18 roots); the passive effects of a commit run before the next    *)
(* handler does, with the values of that commit.                           *)
(*                                                                         *)
(* Left out: isDraggingTarget and isDraggingChallenge with handleDragOver  *)
(* and handleDragLeave (App.tsx:41-42, 167-198), which only highlight the  *)
(* drop zones, and the BGM player, which shares no state with App.         *)
(***************************************************************************)
EXTENDS Integers, Sequences, FiniteSets, TLC

(***************************************************************************)
(* Bounds of the model.                                                    *)
(***************************************************************************)
\* number of files the user may hand to processFile in one behaviour
MaxUploads == 2
\* number of positions of PosTable the scorer's inputs are drawn from
NumPos == 4
\* number of successive drawPose calls made on one canvas
MaxDraws == 2

(***************************************************************************)
(* Program constants.                                                      *)
(***************************************************************************)
\* App.tsx:398  const maxPossibleKeypoints = 17
maxPossibleKeypoints == 17
\* App.tsx:402  if (minValidCount < 8)  and  :403  minValidCount / 8
SevereLimit == 8
\* App.tsx:391  kp.score > 0.3, in hundredths
ValidThreshold == 30
\* App.tsx:302  const fixedHeight = 300
fixedHeight == 300
\* App.tsx:34   useState<number | null>(null): the null of a number state
NullNum == -1
\* App.tsx:241  kp.score || 0: the confidence of a raw keypoint that has none
Missing == -1

KeypointIdx == 0 .. (maxPossibleKeypoints - 1)

\* App.tsx:50-68
keypointNames ==
  [i \in KeypointIdx |->
     CASE i = 0 -> "nose"           [] i = 1 -> "left_eye"
       [] i = 2 -> "right_eye"      [] i = 3 -> "left_ear"
       [] i = 4 -> "right_ear"      [] i = 5 -> "left_shoulder"
       [] i = 6 -> "right_shoulder" [] i = 7 -> "left_elbow"
       [] i = 8 -> "right_elbow"    [] i = 9 -> "left_wrist"
       [] i = 10 -> "right_wrist"   [] i = 11 -> "left_hip"
       [] i = 12 -> "right_hip"     [] i = 13 -> "left_knee"
       [] i = 14 -> "right_knee"    [] i = 15 -> "left_ankle"
       [] OTHER -> "right_ankle"]

(***************************************************************************)
(* Exact arithmetic helpers.                                               *)
(***************************************************************************)
Min(a, b) == IF a <= b THEN a ELSE b

RECURSIVE SqrtBetween(_, _, _)
\* the largest r in lo..hi with r*r <= n (bisection)
SqrtBetween(n, lo, hi) ==
  IF lo >= hi THEN lo
  ELSE LET mid == (lo + hi + 1) \div 2
       IN  IF mid * mid <= n THEN SqrtBetween(n, mid, hi)
                             ELSE SqrtBetween(n, lo, mid - 1)

\* Math.sqrt on the perfect squares the inputs produce; 46340 is the largest
\* root of a 32-bit integer
Sqrt(n) == SqrtBetween(n, 0, Min(n, 46340))

\* Math.round of the fraction num/den (den > 0): the nearest integer, a
\* half going up
Round(num, den) == (2 * num + den) \div (2 * den)


RECURSIVE GCD(_, _)
GCD(a, b) == IF b = 0 THEN a ELSE GCD(b, a % b)

\* the fraction num/den (den > 0) in lowest terms
Frac(num, den) ==
  LET g == GCD(IF num < 0 THEN -num ELSE num, den)
  IN  << num \div g, den \div g >>

FAdd(a, b) == Frac(a[1] * b[2] + b[1] * a[2], a[2] * b[2])
FSub(a, b) == Frac(a[1] * b[2] - b[1] * a[2], a[2] * b[2])
FMul(a, b) == Frac(a[1] * b[1], a[2] * b[2])
FDivInt(a, n) == Frac(a[1], a[2] * n)
FLess(a, b) == a[1] * b[2] < b[1] * a[2]
FMax(a, b) == IF FLess(a, b) THEN b ELSE a

RECURSIVE FSum(_)
\* validPairs.reduce((sum, d) => sum + d, 0)
FSum(s) == IF s = << >> THEN Frac(0, 1) ELSE FAdd(Head(s), FSum(Tail(s)))

(***************************************************************************)
(* calculateSimilarity, App.tsx:384-444.                                   *)
(***************************************************************************)
\* a validity test that lets a confidence of exactly 0.3 pass
IsValidInclusive(kp) == kp.score >= ValidThreshold

\* kp.score > 0.3
IsValid(kp) == kp.score > ValidThreshold

\* pose.keypoints.filter((kp) => kp.score > 0.3).length
ValidCount(pose) == Cardinality({i \in KeypointIdx : IsValid(pose.keypoints[i])})

\* a scorer that takes the first pose's count for the minimum
MinValidFirstOnly(pose1, pose2) == ValidCount(pose1)

\* a scorer that counts the indices valid in both poses instead
OverlapCount(pose1, pose2) ==
  Cardinality({i \in KeypointIdx : /\ IsValid(pose1.keypoints[i])
                                  /\ IsValid(pose2.keypoints[i])})

\* Math.min(pose1ValidCount, pose2ValidCount)
minValidCount(pose1, pose2) == Min(ValidCount(pose1), ValidCount(pose2))

\* dx = (kp1.x - kp2.x) / 100; dy likewise; Math.sqrt(dx * dx + dy * dy)
Distance(kp1, kp2) ==
  LET dx == kp1.x - kp2.x
      dy == kp1.y - kp2.y
  IN  Frac(Sqrt(dx * dx + dy * dy), 100)

RECURSIVE PairsFrom(_, _, _)
PairsFrom(pose1, pose2, i) ==
  IF i >= maxPossibleKeypoints THEN << >>
  ELSE LET kp1 == pose1.keypoints[i]
           kp2 == pose2.keypoints[i]
       IN  IF IsValid(kp1) /\ IsValid(kp2)
           THEN << Distance(kp1, kp2) >> \o PairsFrom(pose1, pose2, i + 1)
           ELSE PairsFrom(pose1, pose2, i + 1)

\* the validPairs array after the forEach over pose1.keypoints
ValidPairs(pose1, pose2) == PairsFrom(pose1, pose2, 0)

\* validPairs.reduce(...) / validPairs.length
AvgDistance(validPairs) == FDivInt(FSum(validPairs), Len(validPairs))

\* a scorer that forgets Math.max(0, ...)
BaseNoClamp(avgDistance) ==
  FMul(FSub(Frac(1, 1), FDivInt(avgDistance, 5)), Frac(100, 1))

\* a scorer that takes the absolute value instead of Math.max(0, ...)
BaseAbs(avgDistance) ==
  LET b == BaseNoClamp(avgDistance)
  IN  IF b[1] < 0 THEN Frac(-b[1], b[2]) ELSE b

\* Math.max(0, (1 - avgDistance / 5) * 100)
BaseSimilarity(avgDistance) ==
  FMax(Frac(0, 1),
       FMul(FSub(Frac(1, 1), FDivInt(avgDistance, 5)), Frac(100, 1)))

\* a scorer that divides by one more than the number of keypoints
DetectionQualityOffByOne(minValid) == Frac(minValid, maxPossibleKeypoints + 1)

\* minValidCount / maxPossibleKeypoints
DetectionQuality(minValid) == Frac(minValid, maxPossibleKeypoints)

\* a scorer whose severe penalty is upside down
SeverePenaltyInverted(minValid) == Frac(SevereLimit, minValid)

\* minValidCount / 8
SeverePenalty(minValid) == Frac(minValid, SevereLimit)

calculateSimilarity(pose1, pose2) ==
  LET minValid         == minValidCount(pose1, pose2)
      detectionQuality == DetectionQuality(minValid)
      validPairs       == ValidPairs(pose1, pose2)
  IN  IF minValid < SevereLimit
      THEN LET qualityPenalty == FMul(detectionQuality, SeverePenalty(minValid))
           IN  IF Len(validPairs) = 0 THEN 0
               ELSE LET r == FMul(BaseSimilarity(AvgDistance(validPairs)),
                                  qualityPenalty)
                    IN  Round(r[1], r[2])
      ELSE IF Len(validPairs) = 0 THEN 0
           ELSE LET r == FMul(BaseSimilarity(AvgDistance(validPairs)),
                              detectionQuality)
                IN  Round(r[1], r[2])

(***************************************************************************)
(* Poses the inputs are drawn from.  All positions lie on one line of      *)
(* direction (3,4), so every pairwise distance is an integer number of     *)
(* pixels: 100, 475, 600, 490, 500 from the first, and their differences.  *)
(***************************************************************************)
PosTable ==
  << << 0, 0 >>, << 60, 80 >>, << 285, 380 >>, << 360, 480 >>,
     << 294, 392 >>, << 300, 400 >> >>

\* the first k and the last k keypoint indices
Prefix(k) == {i \in KeypointIdx : i < k}
Suffix(k) == {i \in KeypointIdx : i >= maxPossibleKeypoints - k}

\* a raw estimate: the keypoints in `valid` have confidence 0.9, those in
\* `low` 0.3 exactly, the others no confidence at all; keypoint `odd` stands
\* at position oddPos and every other keypoint at pos
RawPose(valid, low, pos, odd, oddPos) ==
  [keypoints |->
     [i \in KeypointIdx |->
        [x |-> IF i = odd THEN PosTable[oddPos][1] ELSE PosTable[pos][1],
         y |-> IF i = odd THEN PosTable[oddPos][2] ELSE PosTable[pos][2],
         score |-> IF i \in valid THEN 90
                   ELSE IF i \in low THEN ValidThreshold ELSE Missing]],
   score |-> 90]

\* detectPose's normalisation of the first estimate, App.tsx:237-245
NormalizePose(raw) ==
  [keypoints |->
     [i \in KeypointIdx |->
        [x |-> raw.keypoints[i].x,
         y |-> raw.keypoints[i].y,
         score |-> IF raw.keypoints[i].score = Missing
                   THEN 0 ELSE raw.keypoints[i].score,
         name |-> keypointNames[i]]],
   score |-> IF raw.score = Missing THEN 0 ELSE raw.score]

\* a detectPose that builds the pose from the last estimate
LastPose(poses) == NormalizePose(poses[Len(poses)])

\* App.tsx:237-245: the pose is built from poses[0]
FirstPose(poses) == NormalizePose(poses[1])


(***************************************************************************)
(* drawPose, App.tsx:270-382.                                              *)
(***************************************************************************)
\* App.tsx:271-289
moveNetColors ==
  [i \in KeypointIdx |->
     CASE i = 0 -> "#FF0000"  [] i = 1 -> "#FF00FF"  [] i = 2 -> "#FF00FF"
       [] i = 3 -> "#8000FF"  [] i = 4 -> "#8000FF"  [] i = 5 -> "#00FFFF"
       [] i = 6 -> "#FF8000"  [] i = 7 -> "#00FF00"  [] i = 8 -> "#FFFF00"
       [] i = 9 -> "#80FF80"  [] i = 10 -> "#FF4000" [] i = 11 -> "#0000FF"
       [] i = 12 -> "#00FF00" [] i = 13 -> "#0080FF" [] i = 14 -> "#80FF80"
       [] i = 15 -> "#8080FF" [] OTHER -> "#00FFFF"]

\* App.tsx:324-337
connections ==
  { << 5, 6 >>, << 5, 7 >>, << 7, 9 >>, << 6, 8 >>, << 8, 10 >>, << 5, 11 >>,
    << 6, 12 >>, << 11, 12 >>, << 11, 13 >>, << 13, 15 >>, << 12, 14 >>,
    << 14, 16 >> }

\* the pixels of a canvas nothing is drawn on
BlankPixels ==
  [width |-> 300, height |-> 150, background |-> "transparent", image |-> 0,
   lines |-> {}, discs |-> {}]

\* a renderer that takes every bone's colour from the table
LineColorTable(i, j) == moveNetColors[i]

\* App.tsx:344-352: the colour of the bone [i, j]
LineColor(i, j) ==
  IF (i = 5 /\ j = 6) \/ (i = 6 /\ j = 5) THEN "#FF0000" ELSE moveNetColors[i]

\* App.tsx:314-319: what fills the canvas before the skeleton is drawn
Backdrop(shouldShowImage) == IF shouldShowImage THEN "image" ELSE "#000000"

\* a renderer that takes the aspect ratio upside down
CanvasWidthInverse(image) == Round(fixedHeight * image.height, image.width)

\* App.tsx:304: Math.round(fixedHeight * imageAspect)
CanvasWidth(image) == Round(fixedHeight * image.width, image.height)

\* what a canvas shows after drawPose(canvas, pose, image, isTarget) has
\* drawn on it (App.tsx:302-381), shouldShowImage being the closure's
\* showTargetImage or showChallengeImage
drawPose(pose, image, shouldShowImage) ==
       LET canvasWidth == CanvasWidth(image)
           X(kp) == Frac(kp.x * canvasWidth, image.width)
           Y(kp) == Frac(kp.y * fixedHeight, image.height)
       IN  [width |-> canvasWidth,
            height |-> fixedHeight,
            background |-> Backdrop(shouldShowImage),
            image |-> IF shouldShowImage THEN image.id ELSE 0,
            lines |->
              {[i |-> c[1], j |-> c[2], color |-> LineColor(c[1], c[2]),
                from |-> << X(pose.keypoints[c[1]]), Y(pose.keypoints[c[1]]) >>,
                to |-> << X(pose.keypoints[c[2]]), Y(pose.keypoints[c[2]]) >>] :
                 c \in {d \in connections : /\ IsValid(pose.keypoints[d[1]])
                                            /\ IsValid(pose.keypoints[d[2]])}},
            discs |->
              {[index |-> k, color |-> moveNetColors[k],
                at |-> << X(pose.keypoints[k]), Y(pose.keypoints[k]) >>] :
                 k \in {n \in KeypointIdx : IsValid(pose.keypoints[n])}}]

(***************************************************************************)
(* The images a user can upload: what the decoded bitmap measures and what *)
(* detector.estimatePoses answers for it.                                  *)
(***************************************************************************)
ImageTable ==
  << [width |-> 400, height |-> 200, poses |-> << >>],
     [width |-> 400, height |-> 200,
      poses |-> << RawPose(KeypointIdx, {}, 2, 5, 2) >>],
     [width |-> 200, height |-> 400,
      poses |-> << RawPose(Prefix(7), {7}, 1, 5, 2),
                   RawPose(KeypointIdx, {}, 1, 5, 1) >>] >>

Contents == 1 .. Len(ImageTable)

(***************************************************************************)
(* The state of the App component.  Image and DetectedPose objects are     *)
(* held by reference: an image is the number of the Image object with the  *)
(* content it shows, a pose is the image detectPose built it from, and     *)
(* Null is null.  A canvas is held as the last drawing made on it; Pixels  *)
(* gives what it then shows.                                               *)
(***************************************************************************)
VARIABLES
  detector,            \* App.tsx:22   TRUE when a PoseDetector is set
  isModelLoading,      \* App.tsx:25
  targetImage,         \* App.tsx:26
  challengeImage,      \* App.tsx:27
  targetPose,          \* App.tsx:30
  challengePose,       \* App.tsx:31
  detectingTarget,     \* App.tsx:32
  detectingChallenge,  \* App.tsx:33
  similarity,          \* App.tsx:34
  prevSimilarity,      \* App.tsx:35
  error,               \* App.tsx:36
  showTargetImage,     \* App.tsx:37
  showChallengeImage,  \* App.tsx:38
  canvas1,             \* App.tsx:47   canvasRef1.current
  canvas2,             \* App.tsx:48   canvasRef2.current
  nextImage,           \* number of Image objects created so far
  loading,             \* files handed to FileReader whose img.onload is due
  inflight,            \* detectPose calls awaiting detector.estimatePoses
  soundCount,          \* number of calls of playScoreSound so far
  scoreDeps,           \* dependencies the score effect last ran with
  drawDeps1,           \* dependencies the target redraw effect last ran with
  drawDeps2,           \* dependencies the challenge redraw effect last ran with
  sinceReset,          \* TRUE from resetGame until the next processFile
  uploadLimit,         \* number of files the user hands over in all
  pose1,               \* scorer: first argument of calculateSimilarity
  pose2,               \* scorer: second argument
  score,               \* scorer: the result returned
  pose3,               \* scorer: first argument of a second call
  pose4,               \* scorer: its second argument
  score2,              \* scorer: its result
  surface,             \* renderer: what the canvas drawn on shows
  drawArgs,            \* renderer: the pose, image and flag drawn,
                       \* and what the canvas showed before
  draws,               \* renderer: number of drawPose calls made
  firstSurface,        \* renderer: the canvas after the first call
  poses,               \* detectPose: what estimatePoses resolved with
  storedPose           \* detectPose: the pose handed to setTargetPose

appVars ==
  << detector, isModelLoading, targetImage, challengeImage, targetPose,
     challengePose, detectingTarget, detectingChallenge, similarity,
     prevSimilarity, error, showTargetImage, showChallengeImage, canvas1,
     canvas2, nextImage, loading, inflight, soundCount, scoreDeps, drawDeps1,
     drawDeps2, sinceReset, uploadLimit >>

scorerVars == << pose1, pose2, score, pose3, pose4, score2 >>

renderVars == << surface, drawArgs, draws, firstSurface >>

detectVars == << poses, storedPose >>

vars == << appVars, scorerVars, renderVars, detectVars >>

\* the null of an image state and of a pose state
Null == [id |-> 0, content |-> 0]

\* new Image(), the n-th one made, decoded from a file of content c
NewImage(n, c) == [id |-> n, content |-> c]

\* the bitmap of an image
ImageObject(image) ==
  [id |-> image.id, width |-> ImageTable[image.content].width,
   height |-> ImageTable[image.content].height]

\* what detector.estimatePoses(image) resolves with
estimatePoses(image) == ImageTable[image.content].poses

\* the DetectedPose object detectPose builds from poses[0] of image ref
DetectedPose(ref) == FirstPose(estimatePoses(ref))

\* a canvas that is not in the document (canvasRef.current is null)
NoCanvas == [mounted |-> FALSE, pose |-> Null, image |-> Null, show |-> FALSE]

\* a canvas nothing was drawn on, or that clearRect wiped
BlankCanvas == [mounted |-> TRUE, pose |-> Null, image |-> Null, show |-> FALSE]

\* the canvas after drawPose(canvas, pose, image, isTarget) of App.tsx:291,
\* with shouldShowImage the closure's showTargetImage or showChallengeImage:
\* nothing happens without a canvas (App.tsx:297)
DrawOn(canvas, pose, image, shouldShowImage) ==
  IF ~canvas.mounted \/ pose = Null THEN canvas
  ELSE [mounted |-> TRUE, pose |-> pose, image |-> image,
        show |-> shouldShowImage]

\* what a canvas shows
Pixels(canvas) ==
  IF ~canvas.mounted \/ canvas.pose = Null THEN BlankPixels
  ELSE drawPose(DetectedPose(canvas.pose), ImageObject(canvas.image),
                canvas.show)

\* a renderer that leaves the canvas the size it has
ResizeCanvasNever(surface0, w, h) == surface0

\* App.tsx:306-307: canvas.width = canvasWidth; canvas.height = fixedHeight;
\* setting a dimension makes the bitmap a new, transparent one
ResizeCanvas(surface0, w, h) ==
  [width |-> w, height |-> h, background |-> "transparent", image |-> 0,
   lines |-> {}, discs |-> {}]

\* App.tsx:309: ctx.clearRect(0, 0, canvas.width, canvas.height)
clearRect(surface0) ==
  [surface0 EXCEPT !.background = "transparent", !.image = 0, !.lines = {},
                   !.discs = {}]

\* App.tsx:314-319: drawImage or fillRect over the whole canvas, which
\* covers what was drawn before
FillCanvas(surface0, image, shouldShowImage) ==
  [surface0 EXCEPT !.background = Backdrop(shouldShowImage),
                   !.image = IF shouldShowImage THEN image.id ELSE 0,
                   !.lines = {}, !.discs = {}]

\* drawPose of App.tsx:291-382 on a canvas that shows surface0: resize,
\* clear, fill, then the bones and discs on top of what is there
DrawPoseOn(surface0, pose, image, shouldShowImage) ==
  LET filled == FillCanvas(clearRect(ResizeCanvas(surface0, CanvasWidth(image),
                                                  fixedHeight)),
                           image, shouldShowImage)
      skeleton == drawPose(pose, image, shouldShowImage)
  IN  [filled EXCEPT !.lines = @ \cup skeleton.lines,
                     !.discs = @ \cup skeleton.discs]

\* the renderer's variables while the application or the scorer runs
RenderIdle ==
  /\ surface = BlankPixels
  /\ drawArgs = << >>
  /\ draws = 0
  /\ firstSurface = BlankPixels

\* the state of the App component after its first render and mount effects
AppInit ==
  /\ detector = FALSE
  /\ isModelLoading = TRUE
  /\ targetImage = Null
  /\ challengeImage = Null
  /\ targetPose = Null
  /\ challengePose = Null
  /\ detectingTarget = FALSE
  /\ detectingChallenge = FALSE
  /\ similarity = NullNum
  /\ prevSimilarity = NullNum
  /\ error = "null"
  /\ showTargetImage = TRUE
  /\ showChallengeImage = TRUE
  /\ canvas1 = NoCanvas
  /\ canvas2 = NoCanvas
  /\ nextImage = 0
  /\ loading = {}
  /\ inflight = {}
  /\ soundCount = 0
  /\ scoreDeps = << Null, Null, NullNum >>
  /\ drawDeps1 = << TRUE, Null, Null >>
  /\ drawDeps2 = << TRUE, Null, Null >>
  /\ sinceReset = FALSE

\* a target redraw effect whose dependencies leave out showTargetImage
DrawDeps1NoToggle == << TRUE, targetImage, targetPose >>

\* the dependency arrays of the three effects, App.tsx:457, 464, 470
ScoreDepsNow == << targetPose, challengePose, prevSimilarity >>
DrawDeps1Now == << showTargetImage, targetImage, targetPose >>
DrawDeps2Now == << showChallengeImage, challengeImage, challengePose >>

\* no effect of the last commit is still due
EffectsFlushed ==
  /\ scoreDeps = ScoreDepsNow
  /\ drawDeps1 = DrawDeps1Now
  /\ drawDeps2 = DrawDeps2Now

\* the page is rendered (App.tsx:504) and idle: a handler may run
Ready == ~isModelLoading /\ EffectsFlushed

(***************************************************************************)
(* initializeModel, App.tsx:70-96.                                         *)
(***************************************************************************)
InitializeModelResolve ==
  /\ isModelLoading
  /\ detector' = TRUE
  /\ isModelLoading' = FALSE
  /\ UNCHANGED << targetImage, challengeImage, targetPose, challengePose,
                  detectingTarget, detectingChallenge, similarity,
                  prevSimilarity, error, showTargetImage, showChallengeImage,
                  canvas1, canvas2, nextImage, loading, inflight, soundCount,
                  scoreDeps, drawDeps1, drawDeps2, sinceReset, uploadLimit, scorerVars,
                  renderVars, detectVars >>

InitializeModelReject ==
  /\ isModelLoading
  /\ error' = "init failed"
  /\ isModelLoading' = FALSE
  /\ UNCHANGED << detector, targetImage, challengeImage, targetPose,
                  challengePose, detectingTarget, detectingChallenge,
                  similarity, prevSimilarity, showTargetImage,
                  showChallengeImage, canvas1, canvas2, nextImage, loading,
                  inflight, soundCount, scoreDeps, drawDeps1, drawDeps2,
                  sinceReset, uploadLimit, scorerVars,
                  renderVars, detectVars >>

(***************************************************************************)
(* processFile, App.tsx:121-156, up to reader.readAsDataURL.  A file is 0  *)
(* (its type does not start with image/) or the content of an image.  The  *)
(* request remembers the closure the handler was made in.                  *)
(***************************************************************************)
Files == {0} \cup Contents

\* a type test that lets every file pass
IsImageFileAny(file) == TRUE

\* file.type.startsWith('image/')
IsImageFile(file) == file # 0

processFile(file, isTarget) ==
  IF ~IsImageFile(file)
  THEN /\ error' = "select an image file"
       /\ UNCHANGED << nextImage, loading, sinceReset >>
  ELSE /\ nextImage < uploadLimit
       /\ nextImage' = nextImage + 1
       /\ loading' = loading \cup
            {[image |-> NewImage(nextImage + 1, file), isTarget |-> isTarget,
              show |-> IF isTarget THEN showTargetImage ELSE showChallengeImage]}
       /\ sinceReset' = FALSE
       /\ UNCHANGED error

\* App.tsx:158-165
handleImageUpload(file, isTarget) ==
  /\ Ready
  /\ processFile(file, isTarget)
  /\ UNCHANGED << detector, isModelLoading, targetImage, challengeImage,
                  targetPose, challengePose, detectingTarget,
                  detectingChallenge, similarity, prevSimilarity,
                  showTargetImage, showChallengeImage, canvas1, canvas2,
                  inflight, soundCount, scoreDeps, drawDeps1, drawDeps2,
                  uploadLimit, scorerVars,
                  renderVars, detectVars >>

\* App.tsx:200-218; files is the list of files dropped
handleDrop(files, isTarget) ==
  /\ Ready
  /\ IF \E n \in DOMAIN files : IsImageFile(files[n])
     THEN LET first == CHOOSE n \in DOMAIN files :
                         /\ IsImageFile(files[n])
                         /\ \A m \in 1 .. (n - 1) : ~IsImageFile(files[m])
          IN  processFile(files[first], isTarget)
     ELSE /\ error' = "drop an image file"
          /\ UNCHANGED << nextImage, loading, sinceReset >>
  /\ UNCHANGED << detector, isModelLoading, targetImage, challengeImage,
                  targetPose, challengePose, detectingTarget,
                  detectingChallenge, similarity, prevSimilarity,
                  showTargetImage, showChallengeImage, canvas1, canvas2,
                  inflight, soundCount, scoreDeps, drawDeps1, drawDeps2,
                  uploadLimit, scorerVars,
                  renderVars, detectVars >>

\* App.tsx:154  reader.onerror
ReaderOnerror(req) ==
  /\ Ready
  /\ req \in loading
  /\ loading' = loading \ {req}
  /\ error' = "file read failed"
  /\ UNCHANGED << detector, isModelLoading, targetImage, challengeImage,
                  targetPose, challengePose, detectingTarget,
                  detectingChallenge, similarity, prevSimilarity,
                  showTargetImage, showChallengeImage, canvas1, canvas2,
                  nextImage, inflight, soundCount, scoreDeps, drawDeps1,
                  drawDeps2, sinceReset, uploadLimit, scorerVars,
                  renderVars, detectVars >>

\* App.tsx:150  img.onerror
ImgOnerror(req) ==
  /\ Ready
  /\ req \in loading
  /\ loading' = loading \ {req}
  /\ error' = "image load failed"
  /\ UNCHANGED << detector, isModelLoading, targetImage, challengeImage,
                  targetPose, challengePose, detectingTarget,
                  detectingChallenge, similarity, prevSimilarity,
                  showTargetImage, showChallengeImage, canvas1, canvas2,
                  nextImage, inflight, soundCount, scoreDeps, drawDeps1,
                  drawDeps2, sinceReset, uploadLimit, scorerVars,
                  renderVars, detectVars >>

(***************************************************************************)
(* img.onload, App.tsx:132-148, up to the await of detector.estimatePoses  *)
(* inside detectPose (App.tsx:220-231).  With no detector the handler runs *)
(* to its end at once.  The canvas of a slot is in the document exactly    *)
(* when the slot has an image (App.tsx:576, 660).                          *)
(***************************************************************************)
ImgOnload(req) ==
  /\ Ready
  /\ req \in loading
  /\ loading' = loading \ {req}
  /\ IF req.isTarget
     THEN /\ targetImage' = req.image
          /\ targetPose' = Null
          /\ canvas1' = IF canvas1.mounted THEN canvas1 ELSE BlankCanvas
          /\ detectingTarget' = (detector \/ detectingTarget)
          /\ UNCHANGED << challengeImage, challengePose, canvas2,
                          detectingChallenge >>
     ELSE /\ challengeImage' = req.image
          /\ challengePose' = Null
          /\ canvas2' = IF canvas2.mounted THEN canvas2 ELSE BlankCanvas
          /\ detectingChallenge' = (detector \/ detectingChallenge)
          /\ UNCHANGED << targetImage, targetPose, canvas1, detectingTarget >>
  /\ error' = "null"
  /\ IF detector
     THEN inflight' = inflight \cup {req} /\ UNCHANGED similarity
     ELSE similarity' = NullNum /\ UNCHANGED inflight
  /\ UNCHANGED << detector, isModelLoading, prevSimilarity, showTargetImage,
                  showChallengeImage, nextImage, soundCount, scoreDeps,
                  drawDeps1, drawDeps2, sinceReset, uploadLimit, scorerVars,
                  renderVars, detectVars >>

\* App.tsx:256-260: the message setError gets in detectPose's catch
DetectError(isTarget) ==
  IF isTarget THEN "target pose detection failed"
              ELSE "challenge pose detection failed"

\* App.tsx:146-147: what the end of img.onload leaves of the error message
\* err that detectPose set
OnloadEndError(err) == "null"

\* a finally that clears the busy flag of both slots
FinallyFlagsBoth(isTarget) == << FALSE, FALSE >>

\* a detectPose without its finally: the busy flags stay as they are
FinallyFlagsKept(isTarget) == << detectingTarget, detectingChallenge >>

\* App.tsx:262-266: the busy flags <<detectingTarget, detectingChallenge>>
\* after detectPose's finally
FinallyFlags(isTarget) ==
  IF isTarget THEN << FALSE, detectingChallenge >>
              ELSE << detectingTarget, FALSE >>

\* the rest of detectPose and of img.onload once estimatePoses has answered:
\* failed is TRUE when it rejected or answered an empty list
DetectPoseEnd(req, failed) ==
  /\ Ready
  /\ req \in inflight
  /\ inflight' = inflight \ {req}
  /\ IF failed
     THEN UNCHANGED << targetPose, challengePose, canvas1, canvas2 >>
     ELSE IF req.isTarget
          THEN /\ targetPose' = req.image
               /\ canvas1' = DrawOn(canvas1, req.image, req.image, req.show)
               /\ UNCHANGED << challengePose, canvas2 >>
          ELSE /\ challengePose' = req.image
               /\ canvas2' = DrawOn(canvas2, req.image, req.image, req.show)
               /\ UNCHANGED << targetPose, canvas1 >>
  /\ detectingTarget' = FinallyFlags(req.isTarget)[1]
  /\ detectingChallenge' = FinallyFlags(req.isTarget)[2]
  /\ similarity' = NullNum
  /\ error' = OnloadEndError(IF failed THEN DetectError(req.isTarget)
                                       ELSE "null")
  /\ UNCHANGED << detector, isModelLoading, targetImage, challengeImage,
                  prevSimilarity, showTargetImage, showChallengeImage, nextImage,
                  loading, soundCount, scoreDeps, drawDeps1, drawDeps2,
                  sinceReset, uploadLimit, scorerVars,
                  renderVars, detectVars >>

\* estimatePoses resolves with what the image shows, App.tsx:231-254
EstimateResolve(req) ==
  DetectPoseEnd(req, Len(estimatePoses(req.image)) = 0)

\* a catch that shows the error and calls estimatePoses again for the image
EstimateRejectRetry(req) ==
  /\ Ready
  /\ req \in inflight
  /\ error' = DetectError(req.isTarget)
  /\ UNCHANGED << detector, isModelLoading, targetImage, challengeImage,
                  targetPose, challengePose, detectingTarget,
                  detectingChallenge, similarity, prevSimilarity,
                  showTargetImage, showChallengeImage, canvas1, canvas2,
                  nextImage, loading, inflight, soundCount, scoreDeps,
                  drawDeps1, drawDeps2, sinceReset, uploadLimit, scorerVars,
                  renderVars, detectVars >>

\* estimatePoses rejects, App.tsx:255-260
EstimateReject(req) == DetectPoseEnd(req, TRUE)

\* App.tsx:593, 679: the toggle button, rendered when the slot has a pose
ToggleShowImage(isTarget) ==
  /\ Ready
  /\ IF isTarget
     THEN /\ targetImage # Null /\ targetPose # Null
          /\ showTargetImage' = ~showTargetImage
          /\ UNCHANGED showChallengeImage
     ELSE /\ challengeImage # Null /\ challengePose # Null
          /\ showChallengeImage' = ~showChallengeImage
          /\ UNCHANGED showTargetImage
  /\ UNCHANGED << detector, isModelLoading, targetImage, challengeImage,
                  targetPose, challengePose, detectingTarget,
                  detectingChallenge, similarity, prevSimilarity, error,
                  canvas1, canvas2, nextImage, loading, inflight, soundCount,
                  scoreDeps, drawDeps1, drawDeps2, sinceReset, uploadLimit, scorerVars,
                  renderVars, detectVars >>

\* App.tsx:481-502; both canvases are cleared and then leave the document
resetGame ==
  /\ Ready
  /\ targetImage' = Null
  /\ challengeImage' = Null
  /\ targetPose' = Null
  /\ challengePose' = Null
  /\ similarity' = NullNum
  /\ prevSimilarity' = NullNum
  /\ error' = "null"
  /\ detectingTarget' = FALSE
  /\ detectingChallenge' = FALSE
  /\ showTargetImage' = TRUE
  /\ showChallengeImage' = TRUE
  /\ canvas1' = NoCanvas
  /\ canvas2' = NoCanvas
  /\ sinceReset' = TRUE
  /\ UNCHANGED << detector, isModelLoading, nextImage, loading, inflight,
                  soundCount, scoreDeps, drawDeps1, drawDeps2, uploadLimit,
                  scorerVars,
                  renderVars, detectVars >>

(***************************************************************************)
(* The effects of a commit, App.tsx:447-470: each runs when one of its     *)
(* dependencies differs from the value it last ran with.                   *)
(***************************************************************************)
\* an effect that plays the sound on every recompute
SimilarityChangedAlways(prev, sim) == TRUE

\* App.tsx:452  if (prevSimilarity !== sim)
SimilarityChanged(prev, sim) == prev # sim

\* the effects that are due run; sim is what calculateSimilarity answers when
\* the score effect calls it
RunEffects(sim) ==
  /\ ~isModelLoading
  /\ ~EffectsFlushed
  /\ LET runScore == /\ scoreDeps # ScoreDepsNow
                     /\ targetPose # Null
                     /\ challengePose # Null
         play     == runScore /\ SimilarityChanged(prevSimilarity, sim)
     IN  /\ similarity' = IF runScore THEN sim ELSE similarity
         /\ soundCount' = IF play THEN soundCount + 1 ELSE soundCount
         /\ prevSimilarity' = IF play THEN sim ELSE prevSimilarity
  /\ canvas1' = IF /\ drawDeps1 # DrawDeps1Now
                   /\ targetImage # Null
                   /\ targetPose # Null
                THEN DrawOn(canvas1, targetPose, targetImage, showTargetImage)
                ELSE canvas1
  /\ canvas2' = IF /\ drawDeps2 # DrawDeps2Now
                   /\ challengeImage # Null
                   /\ challengePose # Null
                THEN DrawOn(canvas2, challengePose, challengeImage,
                            showChallengeImage)
                ELSE canvas2
  /\ scoreDeps' = ScoreDepsNow
  /\ drawDeps1' = DrawDeps1Now
  /\ drawDeps2' = DrawDeps2Now
  /\ UNCHANGED << detector, isModelLoading, targetImage, challengeImage,
                  targetPose, challengePose, detectingTarget,
                  detectingChallenge, error, showTargetImage,
                  showChallengeImage, nextImage, loading, inflight, sinceReset,
                  uploadLimit, scorerVars,
                  renderVars, detectVars >>

\* App.tsx:449  const sim = calculateSimilarity(targetPose, challengePose)
FlushEffects ==
  RunEffects(calculateSimilarity(DetectedPose(targetPose),
                                 DetectedPose(challengePose)))

(***************************************************************************)
(* The application.                                                        *)
(***************************************************************************)
\* what a drop can carry: one file that is no image, or one image, or both
Drops == {<< 0 >>} \cup {<< c >> : c \in Contents}
           \cup {<< 0, c >> : c \in Contents}

\* a pose value that is no pose
EmptyPose == [keypoints |-> << >>, score |-> 0]

\* the scorer's variables while the application runs
ScorerIdle ==
  /\ pose1 = EmptyPose
  /\ pose2 = EmptyPose
  /\ score = NullNum
  /\ pose3 = EmptyPose
  /\ pose4 = EmptyPose
  /\ score2 = NullNum

\* detectPose's variables while it is not looked at on its own
DetectIdle ==
  /\ poses = << >>
  /\ storedPose = EmptyPose

Init ==
  /\ AppInit
  /\ RenderIdle
  /\ uploadLimit = MaxUploads
  /\ ScorerIdle
  /\ DetectIdle

Next ==
  \/ InitializeModelResolve
  \/ InitializeModelReject
  \/ \E file \in Files, isTarget \in BOOLEAN : handleImageUpload(file, isTarget)
  \/ \E files \in Drops, isTarget \in BOOLEAN : handleDrop(files, isTarget)
  \/ \E req \in loading : ReaderOnerror(req)
  \/ \E req \in loading : ImgOnerror(req)
  \/ \E req \in loading : ImgOnload(req)
  \/ \E req \in inflight : EstimateResolve(req)
  \/ \E req \in inflight : EstimateReject(req)
  \/ \E isTarget \in BOOLEAN : ToggleShowImage(isTarget)
  \/ resetGame
  \/ FlushEffects

Spec == Init /\ [][Next]_vars

\* the scores an effect can compute
Scores == 0 .. 100

\* the effects that are due run, whatever score they compute: under Next such
\* a step is a FlushEffects step
EffectsRun == \E sim \in Scores : RunEffects(sim)

\* estimatePoses answers a call (resolves or rejects) and detectPose resumes
EstimatorResponds ==
  \E req \in inflight : EstimateResolve(req) \/ EstimateReject(req)

\* the application with effects that run after every commit and an estimator
\* that answers every call: a continuation that is ready over and over again
\* is eventually run by the event loop
SpecLive ==
  /\ Init
  /\ [][Next]_vars
  /\ WF_vars(EffectsRun)
  /\ SF_vars(EstimatorResponds)


\* the same application with a user who hands over one more file
InitLong ==
  /\ AppInit
  /\ RenderIdle
  /\ uploadLimit = MaxUploads + 1
  /\ ScorerIdle
  /\ DetectIdle

SpecLong == InitLong /\ [][Next]_vars

(***************************************************************************)
(* calculateSimilarity on its own: the arguments are drawn from ScorePoses *)
(* and the function is applied to them.                                    *)
(***************************************************************************)
Positions == 1 .. NumPos

\* which keypoints are valid, and which have confidence 0.3 exactly
ScoreMasks ==
  { << Prefix(0), {} >>, << Prefix(7), {} >>, << Prefix(7), {7} >>,
    << Prefix(8), {} >>, << KeypointIdx, {} >>, << Suffix(7), {} >>,
    << Suffix(8), {} >>, << Suffix(9), {} >>, << Suffix(10), {} >> }

\* the poses with every keypoint at one position
UniformPoses ==
  { NormalizePose(RawPose(m[1], m[2], p, 5, p)) :
      m \in ScoreMasks, p \in Positions }

\* the poses with keypoint 5 (left_shoulder) standing apart from the others
ScorePoses ==
  { NormalizePose(RawPose(m[1], m[2], p, 5, q)) :
      m \in ScoreMasks, p \in Positions, q \in Positions }

InitScore ==
  /\ AppInit
  /\ RenderIdle
  /\ DetectIdle
  /\ uploadLimit = 0
  /\ pose1 \in ScorePoses
  /\ pose2 \in ScorePoses
  /\ score = NullNum
  /\ pose3 = EmptyPose
  /\ pose4 = EmptyPose
  /\ score2 = NullNum

\* score = calculateSimilarity(pose1, pose2)
Score ==
  /\ score = NullNum
  /\ score' = calculateSimilarity(pose1, pose2)
  /\ UNCHANGED << appVars, renderVars, detectVars, pose1, pose2, pose3, pose4,
                  score2 >>

\* score2 = calculateSimilarity(pose3, pose4)
ScoreSecond ==
  /\ score # NullNum
  /\ score2 = NullNum
  /\ pose3 # EmptyPose
  /\ score2' = calculateSimilarity(pose3, pose4)
  /\ UNCHANGED << appVars, renderVars, detectVars, pose1, pose2, score, pose3,
                  pose4 >>

NextScore == Score \/ ScoreSecond

SpecScore == InitScore /\ [][Score]_vars

\* the pairs of uniform poses that share a qualifying index, with their
\* minValidCount and their average distance
RegimeInputs ==
  { [pose1 |-> x[1], pose2 |-> x[2],
     minValid |-> minValidCount(x[1], x[2]),
     avgDistance |-> AvgDistance(ValidPairs(x[1], x[2]))] :
      x \in { y \in UniformPoses \X UniformPoses :
                Len(ValidPairs(y[1], y[2])) > 0 } }

\* two calls on inputs with the same average distance over their qualifying
\* indices: the first with minValidCount 7, the second with 8
InitRegime ==
  /\ AppInit
  /\ RenderIdle
  /\ DetectIdle
  /\ uploadLimit = 0
  /\ \E a \in RegimeInputs, b \in RegimeInputs :
       /\ a.minValid = SevereLimit - 1
       /\ b.minValid = SevereLimit
       /\ a.avgDistance = b.avgDistance
       /\ pose1 = a.pose1
       /\ pose2 = a.pose2
       /\ pose3 = b.pose1
       /\ pose4 = b.pose2
  /\ score = NullNum
  /\ score2 = NullNum

SpecRegime == InitRegime /\ [][NextScore]_vars

\* pose with keypoint k moved to position q of PosTable
MoveKeypoint(pose, k, q) ==
  [pose EXCEPT !.keypoints[k].x = PosTable[q][1],
               !.keypoints[k].y = PosTable[q][2]]

\* the keypoint of the inputs that stands apart (left_shoulder)
OddKeypoint == 5

\* two calls on inputs with the same validity patterns that differ in the
\* position of one keypoint of the second pose, which is farther from its
\* partner in the second call
InitMono ==
  /\ AppInit
  /\ RenderIdle
  /\ DetectIdle
  /\ uploadLimit = 0
  /\ pose1 \in UniformPoses
  /\ pose2 \in ScorePoses
  /\ IsValid(pose1.keypoints[OddKeypoint])
  /\ IsValid(pose2.keypoints[OddKeypoint])
  /\ pose3 = pose1
  /\ \E q \in Positions :
       /\ pose4 = MoveKeypoint(pose2, OddKeypoint, q)
       /\ FLess(Distance(pose1.keypoints[OddKeypoint],
                         pose2.keypoints[OddKeypoint]),
                Distance(pose3.keypoints[OddKeypoint],
                         pose4.keypoints[OddKeypoint]))
  /\ score = NullNum
  /\ score2 = NullNum

SpecMono == InitMono /\ [][NextScore]_vars


(***************************************************************************)
(* The renderer on its own: drawPose called MaxDraws times with the same   *)
(* pose, image and display flag on a canvas that shows anything before.    *)
(***************************************************************************)
\* pose with every keypoint at (x, y)
PlacePose(pose, x, y) ==
  [pose EXCEPT !.keypoints =
     [i \in KeypointIdx |-> [pose.keypoints[i] EXCEPT !.x = x, !.y = y]]]

\* the poses drawn: those the scorer is given, and a fully valid pose at
\* (200, 100)
DrawPoses ==
  ScorePoses \cup
    {PlacePose(NormalizePose(RawPose(KeypointIdx, {}, 1, 5, 1)), 200, 100)}

\* the images drawn on: landscape, portrait, and one whose scaled width is
\* a half-integer before Math.round
DrawImages ==
  { [id |-> 1, width |-> 400, height |-> 200],
    [id |-> 2, width |-> 200, height |-> 400],
    [id |-> 3, width |-> 301, height |-> 200] }

\* what the canvas shows before the first call: nothing, or an earlier
\* drawing of another pose on another image
PriorSurfaces ==
  { BlankPixels,
    drawPose(NormalizePose(RawPose(KeypointIdx, {}, 2, 5, 1)),
             [id |-> 4, width |-> 400, height |-> 200], TRUE),
    drawPose(NormalizePose(RawPose(KeypointIdx, {}, 2, 5, 1)),
             [id |-> 4, width |-> 200, height |-> 400], FALSE) }

InitDraw ==
  /\ AppInit
  /\ uploadLimit = 0
  /\ ScorerIdle
  /\ DetectIdle
  /\ surface \in PriorSurfaces
  /\ drawArgs \in { << pose, image, show, surface >> :
                     pose \in DrawPoses, image \in DrawImages,
                     show \in BOOLEAN }
  /\ draws = 0
  /\ firstSurface = BlankPixels

\* drawPose(canvas, pose, image, isTarget) once more
Draw ==
  /\ draws < MaxDraws
  /\ surface' = DrawPoseOn(surface, drawArgs[1], drawArgs[2], drawArgs[3])
  /\ draws' = draws + 1
  /\ firstSurface' = IF draws = 0 THEN surface' ELSE firstSurface
  /\ UNCHANGED << appVars, scorerVars, detectVars, drawArgs >>

SpecDraw == InitDraw /\ [][Draw]_vars

(***************************************************************************)
(* detectPose on its own, App.tsx:231-254: what it stores and draws for    *)
(* what estimatePoses resolved with.                                       *)
(***************************************************************************)
\* the estimates: every validity pattern of the scorer's poses, with the
\* keypoints outside the pattern carrying no confidence, and one estimate
\* without a pose confidence
RawEstimates ==
  { RawPose(m[1], m[2], p, OddKeypoint, q) :
      m \in ScoreMasks, p \in Positions, q \in Positions }
    \cup {[RawPose(Prefix(8), {}, 1, OddKeypoint, 2) EXCEPT !.score = Missing]}

\* the non-empty answers of estimatePoses: one person, or two of whom the
\* second is seen in full
EstimatorResults ==
  { << a >> : a \in RawEstimates }
    \cup { << a, RawPose(KeypointIdx, {}, 1, OddKeypoint, 1) >> :
             a \in RawEstimates }

InitDetect ==
  /\ AppInit
  /\ RenderIdle
  /\ uploadLimit = 0
  /\ ScorerIdle
  /\ poses \in EstimatorResults
  /\ storedPose = EmptyPose

\* App.tsx:233-254: the pose is built, stored and drawn on the slot's canvas
StorePose ==
  /\ Len(poses) # 0
  /\ storedPose = EmptyPose
  /\ storedPose' = FirstPose(poses)
  /\ \E image \in DrawImages, show \in BOOLEAN :
       /\ drawArgs' = << storedPose', image, show, surface >>
       /\ surface' = DrawPoseOn(surface, storedPose', image, show)
  /\ draws' = draws + 1
  /\ firstSurface' = surface'
  /\ UNCHANGED << appVars, scorerVars, poses >>

SpecDetect == InitDetect /\ [][StorePose]_vars

(***************************************************************************)
(* Properties.                                                             *)
(***************************************************************************)
\* a detectPose call of the slot awaits estimatePoses
InFlightFor(isTarget) == \E r \in inflight : r.isTarget = isTarget

\* the step starts, loads or ends an upload pipeline of the slot
StartsIn(isTarget) == \E r \in loading' \ loading : r.isTarget = isTarget
LoadsIn(isTarget) ==
  \E r \in loading : r.isTarget = isTarget /\ loading' = loading \ {r}
EndsIn(isTarget) ==
  \E r \in inflight : r.isTarget = isTarget /\ inflight' = inflight \ {r}
SlotStep(isTarget) ==
  StartsIn(isTarget) \/ LoadsIn(isTarget) \/ EndsIn(isTarget)

\* no upload pipeline is in progress and every effect has run
Quiescent ==
  /\ ~isModelLoading
  /\ loading = {}
  /\ inflight = {}
  /\ EffectsFlushed

\* C1: in every state where a slot has an image and no detection for the
\* slot is in flight, the slot's pose is null or the pose detected from the
\* slot's current image: the completion of a stale detection, started for an
\* image the slot no longer holds, does not overwrite the slot's pose.
C1_PoseIsOfCurrentImage ==
  /\ (targetImage # Null /\ ~InFlightFor(TRUE))
       => targetPose \in {Null, targetImage}
  /\ (challengeImage # Null /\ ~InFlightFor(FALSE))
       => challengePose \in {Null, challengeImage}

\* C2: the score effect calls playScoreSound exactly once in a run whose
\* computed similarity differs from prevSimilarity (and records the value),
\* not at all in a run that computes the value prevSimilarity holds, which
\* the re-run caused by setPrevSimilarity is, and nothing else plays it.
C2_SoundOncePerNewScore ==
  [][LET recomputed == /\ scoreDeps # ScoreDepsNow
                       /\ scoreDeps' = ScoreDepsNow
                       /\ targetPose # Null
                       /\ challengePose # Null
         sim == calculateSimilarity(DetectedPose(targetPose),
                                    DetectedPose(challengePose))
     IN  /\ (recomputed /\ sim # prevSimilarity)
              => (soundCount' = soundCount + 1 /\ prevSimilarity' = sim)
         /\ (recomputed /\ sim = prevSimilarity) => soundCount' = soundCount
         /\ ~recomputed => soundCount' = soundCount]_vars

\* C2 witness: the sound played once, the effect ran again because
\* prevSimilarity changed, and the count is still one
C2_Witness ==
  /\ EffectsFlushed
  /\ soundCount = 1
  /\ similarity # NullNum
  /\ prevSimilarity = similarity
  /\ scoreDeps[3] = prevSimilarity

\* C3: when estimatePoses answers an empty list, the step that ends that
\* upload's pipeline leaves an error message naming the failing slot and the
\* slot's pose null, with the page still rendered.
C3_NoPersonErrorShown ==
  [][\A req \in inflight :
       (Len(estimatePoses(req.image)) = 0 /\ inflight' = inflight \ {req})
         => /\ error' = DetectError(req.isTarget)
            /\ (IF req.isTarget THEN targetPose' ELSE challengePose') = Null
            /\ ~isModelLoading']_vars

\* C4: in every state where no upload pipeline is in progress and all
\* effects have run, similarity is calculateSimilarity(targetPose,
\* challengePose) if both poses are set and null if either is null.
C4_ScoreMatchesPoses ==
  Quiescent =>
    IF targetPose # Null /\ challengePose # Null
    THEN similarity = calculateSimilarity(DetectedPose(targetPose),
                                          DetectedPose(challengePose))
    ELSE similarity = NullNum

\* C5: in every state after resetGame and before a new upload is started,
\* both images, both poses, similarity and prevSimilarity are null.
C5_ResetDiscards ==
  sinceReset =>
    /\ targetImage = Null
    /\ challengeImage = Null
    /\ targetPose = Null
    /\ challengePose = Null
    /\ similarity = NullNum
    /\ prevSimilarity = NullNum

\* C6: whenever estimatePoses is awaited for a slot, that slot's busy flag
\* is true; and a step of one slot's pipeline never changes the other
\* slot's busy flag.
C6_BusyWhileInFlight ==
  [][/\ InFlightFor(TRUE)' => detectingTarget'
     /\ InFlightFor(FALSE)' => detectingChallenge'
     /\ SlotStep(TRUE) => detectingChallenge' = detectingChallenge
     /\ SlotStep(FALSE) => detectingTarget' = detectingTarget]_vars

\* C7: a step of one slot's upload pipeline (the upload, the image load, a
\* detection that succeeds or fails) leaves the other slot's image, pose,
\* display toggle and busy flag as they are.
C7_SlotIndependence ==
  [][/\ SlotStep(TRUE)
          => UNCHANGED << challengeImage, challengePose, showChallengeImage,
                          detectingChallenge >>
     /\ SlotStep(FALSE)
          => UNCHANGED << targetImage, targetPose, showTargetImage,
                          detectingTarget >>]_vars

\* C7 witness: a target detection that started after a challenge upload has
\* succeeded while the challenge detection is in flight and still busy
C7_Witness ==
  /\ detectingChallenge
  /\ ~detectingTarget
  /\ targetPose # Null
  /\ \E r \in inflight : ~r.isTarget /\ r.image.id < targetPose.id

\* C8: calculateSimilarity(A, B) = calculateSimilarity(B, A).
C8_Symmetry ==
  score # NullNum => score = calculateSimilarity(pose2, pose1)

\* C8 witness: a positive score of two poses with different valid counts
C8_Witness ==
  /\ score > 0
  /\ ValidCount(pose1) < ValidCount(pose2)
  /\ ValidCount(pose1) < SevereLimit

\* C9: calculateSimilarity returns an integer from 0 to 100, in the severe
\* branch and in the normal branch.
C9_Range ==
  score # NullNum => score \in 0 .. 100

\* C9 witness: a score of poses more than 5 apart on average, where the
\* linear falloff is below zero before Math.max
C9_Witness ==
  /\ score # NullNum
  /\ Len(ValidPairs(pose1, pose2)) > 0
  /\ FLess(Frac(5, 1), AvgDistance(ValidPairs(pose1, pose2)))
  /\ minValidCount(pose1, pose2) >= SevereLimit

\* the two calls have been made on inputs with minValidCount 7 and 8 and
\* the same average distance over their qualifying indices
RegimePair ==
  /\ score # NullNum
  /\ score2 # NullNum
  /\ minValidCount(pose1, pose2) = SevereLimit - 1
  /\ minValidCount(pose3, pose4) = SevereLimit
  /\ AvgDistance(ValidPairs(pose1, pose2)) = AvgDistance(ValidPairs(pose3, pose4))

\* C10 as stated: the minValid = 7 score is strictly lower than the
\* minValid = 8 score, or both are 0.
C10_StrictlyLowerOrBothZero ==
  RegimePair => (score < score2 \/ (score = 0 /\ score2 = 0))

\* C10 as amended: the minValid = 7 score is never higher than the
\* minValid = 8 score, and strictly lower whenever the latter is 5 or more.
C10_LowerOrEqual ==
  RegimePair => (score <= score2 /\ (score2 >= 5 => score < score2))

\* C10 witness: a pair of calls where the severe branch gives strictly less
C10_Witness ==
  RegimePair /\ score2 >= 5 /\ 0 < score /\ score < score2

\* no index has a keypoint with score > 0.3 in both poses
NoOverlap(a, b) ==
  \A i \in KeypointIdx :
    ~(a.keypoints[i].score > ValidThreshold /\ b.keypoints[i].score > ValidThreshold)

\* C11: if no index has a valid keypoint (score > 0.3) in both poses,
\* calculateSimilarity returns 0, in the severe branch and in the normal one.
C11_ZeroOverlap ==
  (score # NullNum /\ NoOverlap(pose1, pose2)) => score = 0

\* C11 witness: a call on two poses of 8 valid keypoints each that share none
C11_Witness ==
  /\ score = 0
  /\ NoOverlap(pose1, pose2)
  /\ ValidCount(pose1) = SevereLimit
  /\ ValidCount(pose2) = SevereLimit

\* C12: calculateSimilarity(A, A) = 100 for every pose A whose 17 keypoints
\* all have score > 0.3.
C12_SelfSimilarity ==
  (/\ score # NullNum
   /\ pose1 = pose2
   /\ \A i \in KeypointIdx : pose1.keypoints[i].score > ValidThreshold)
    => score = 100

\* C12 witness: a call on a fully valid pose, whose keypoints stand at two
\* places, and itself
C12_Witness ==
  /\ score # NullNum
  /\ pose1 = pose2
  /\ \A i \in KeypointIdx : pose1.keypoints[i].score > ValidThreshold
  /\ pose1.keypoints[5].x # pose1.keypoints[0].x

\* the two calls have been made on inputs with the same validity patterns
\* that differ only in one qualifying pair, which is farther apart in the
\* second call
MonoPair ==
  /\ score # NullNum
  /\ score2 # NullNum
  /\ pose3 = pose1
  /\ \A i \in KeypointIdx :
       /\ pose4.keypoints[i].score = pose2.keypoints[i].score
       /\ i # OddKeypoint => pose4.keypoints[i] = pose2.keypoints[i]
  /\ pose1.keypoints[OddKeypoint].score > ValidThreshold
  /\ pose2.keypoints[OddKeypoint].score > ValidThreshold
  /\ FLess(Distance(pose1.keypoints[OddKeypoint], pose2.keypoints[OddKeypoint]),
           Distance(pose3.keypoints[OddKeypoint], pose4.keypoints[OddKeypoint]))

\* C13: with the validity patterns fixed, increasing the distance of one
\* qualifying keypoint pair and keeping the other pairs as they are never
\* increases the result of calculateSimilarity.
C13_Monotone ==
  MonoPair => score2 <= score

\* C13 witness: a pair of calls where the larger distance gives strictly less
C13_Witness ==
  MonoPair /\ 0 < score2 /\ score2 < score

\* the sum of the pixel distances of the pairs valid in both poses
RECURSIVE PixelSum(_, _, _)
PixelSum(a, b, i) ==
  IF i >= maxPossibleKeypoints THEN 0
  ELSE (IF /\ a.keypoints[i].score > ValidThreshold
           /\ b.keypoints[i].score > ValidThreshold
        THEN Sqrt((a.keypoints[i].x - b.keypoints[i].x)
                    * (a.keypoints[i].x - b.keypoints[i].x)
                  + (a.keypoints[i].y - b.keypoints[i].y)
                    * (a.keypoints[i].y - b.keypoints[i].y))
        ELSE 0) + PixelSum(a, b, i + 1)

\* the two-regime formula on poses that share a valid index: with m the
\* smaller valid count, n the number of shared valid indices and S the sum
\* of their pixel distances, base = max(0, (1 - S/(100 n)/5) * 100) =
\* max(0, 500 n - S) / (5 n), times m/17, and times m/8 when m < 8
TwoRegime(a, b) ==
  LET validA == Cardinality({i \in KeypointIdx : a.keypoints[i].score > ValidThreshold})
      validB == Cardinality({i \in KeypointIdx : b.keypoints[i].score > ValidThreshold})
      m == IF validA < validB THEN validA ELSE validB
      n == Cardinality({i \in KeypointIdx : /\ a.keypoints[i].score > ValidThreshold
                                           /\ b.keypoints[i].score > ValidThreshold})
      S == PixelSum(a, b, 0)
      base5n == IF 500 * n - S > 0 THEN 500 * n - S ELSE 0
  IN  IF m < 8
      THEN Round(base5n * m * m, 5 * n * 17 * 8)
      ELSE Round(base5n * m, 5 * n * 17)

\* C14: on poses that share a valid index, calculateSimilarity returns
\* round(base * (minValid/17) * (minValid/8)) when minValid < 8 and
\* round(base * minValid/17) when minValid >= 8, minValid = 8 taking the
\* normal branch; the factor is made of minValid, not of the number of
\* shared valid indices.
C14_TwoRegime ==
  (score # NullNum /\ ~NoOverlap(pose1, pose2)) => score = TwoRegime(pose1, pose2)

\* C14 witness: a positive score at minValid = 8 with fewer shared indices
C14_Witness ==
  /\ score > 0
  /\ minValidCount(pose1, pose2) = SevereLimit
  /\ OverlapCount(pose1, pose2) < SevereLimit

\* what an invalid file leaves alone
UploadState ==
  << targetImage, challengeImage, targetPose, challengePose, similarity,
     prevSimilarity, detectingTarget, detectingChallenge, loading, inflight >>

\* C15: processFile on a file whose type does not start with "image/", and
\* handleDrop on a drop with no such file, set the error message and leave
\* both images, both poses, similarity, prevSimilarity and both busy flags
\* unchanged, and start no file read or detection.
C15_InvalidFile ==
  [][\A isTarget \in BOOLEAN :
       /\ handleImageUpload(0, isTarget)
            => (error' = "select an image file" /\ UNCHANGED UploadState)
       /\ handleDrop(<< 0 >>, isTarget)
            => (error' = "drop an image file" /\ UNCHANGED UploadState)]_vars

\* C15 witness: the message of an invalid file, with a detected pose and a
\* score still in place
C15_Witness ==
  /\ error = "select an image file"
  /\ targetPose # Null
  /\ similarity # NullNum

\* every estimatePoses call starts in the img.onload of the image it is for
\* and is not made again when it has answered; Image objects are new ones
CallsFromOnload ==
  /\ ~(inflight' \subseteq inflight) => \E r \in loading : ImgOnload(r)
  /\ \A r \in inflight :
       (EstimateResolve(r) \/ EstimateReject(r)) => inflight' = inflight \ {r}
  /\ \A r \in loading' \ loading :
       /\ r.image.id = nextImage + 1
       /\ nextImage' = nextImage + 1
       /\ \A q \in loading \cup inflight : q.image.id <= nextImage

\* C16 as stated: estimatePoses is called exactly once for every uploaded
\* image that decodes, and never again for it.
C16_OncePerImage ==
  [][/\ \A r \in loading :
          ImgOnload(r) => (r \notin inflight /\ inflight' = inflight \cup {r})
     /\ CallsFromOnload]_vars

\* C16 as amended: with a detector loaded estimatePoses is called exactly
\* once for every uploaded image that decodes, with none it is not called;
\* and it is never called again for an image.
C16_OncePerImageIfDetector ==
  [][/\ \A r \in loading :
          ImgOnload(r) =>
            /\ r \notin inflight
            /\ inflight' = IF detector THEN inflight \cup {r} ELSE inflight
     /\ CallsFromOnload]_vars

\* C16 witness: a detection has failed, nothing is in progress and no call
\* is in flight for the image
C16_Witness ==
  /\ detector
  /\ loading = {}
  /\ inflight = {}
  /\ challengeImage # Null
  /\ challengePose = Null
  /\ nextImage = challengeImage.id
  /\ Len(estimatePoses(challengeImage)) = 0

\* the background a canvas shows matches the display flag
Background(canvas, show) ==
  /\ canvas.mounted
  /\ canvas.pose # Null
  /\ Backdrop(canvas.show) = IF show THEN "image" ELSE "#000000"

\* C20: the step that toggles a display flag and the run of the redraw
\* effect it causes leave both poses, both images, similarity and
\* prevSimilarity unchanged and play no sound; the effect redraws that
\* slot's canvas only; and once the effects have run, the canvas of a slot
\* with an image and a pose has the source image for background when the
\* flag is on and solid black when it is off.
C20_ToggleRedraws ==
  [][LET frame == << targetPose, challengePose, targetImage, challengeImage,
                     similarity, prevSimilarity, soundCount >>
     IN  /\ \A isTarget \in BOOLEAN :
               ToggleShowImage(isTarget)
                 => UNCHANGED << frame, canvas1, canvas2 >>
         /\ (/\ drawDeps1[1] # showTargetImage
             /\ drawDeps1' = DrawDeps1Now
             /\ targetImage # Null
             /\ targetPose # Null)
               => (/\ UNCHANGED << frame, canvas2 >>
                   /\ canvas1'.show = showTargetImage
                   /\ canvas1'.image = targetImage)
         /\ (/\ drawDeps2[1] # showChallengeImage
             /\ drawDeps2' = DrawDeps2Now
             /\ challengeImage # Null
             /\ challengePose # Null)
               => (/\ UNCHANGED << frame, canvas1 >>
                   /\ canvas2'.show = showChallengeImage
                   /\ canvas2'.image = challengeImage)
         /\ (EffectsFlushed /\ targetImage # Null /\ targetPose # Null)'
               => Background(canvas1, showTargetImage)'
         /\ (EffectsFlushed /\ challengeImage # Null /\ challengePose # Null)'
               => Background(canvas2, showChallengeImage)']_vars

\* C20 witness: the target flag was toggled off, the effect has run and the
\* target canvas is black while the challenge canvas shows its image
C20_Witness ==
  /\ EffectsFlushed
  /\ ~showTargetImage
  /\ showChallengeImage
  /\ targetPose # Null
  /\ challengePose # Null
  /\ Pixels(canvas1).background = "#000000"
  /\ Pixels(canvas1).image = 0
  /\ Pixels(canvas2).background = "image"
  /\ Pixels(canvas2).image = challengeImage.id

\* C17: drawPose draws the bone [i, j] of the 12 connections iff keypoints
\* i and j both have score > 0.3, and the disc of keypoint k iff it has
\* score > 0.3; the bone [5, 6] is #FF0000, every other bone has the table
\* colour of its first endpoint, and a disc the table colour of its index.
C17_BonesAndDiscs ==
  draws >= 1 =>
    LET pose == drawArgs[1]
        valid(k) == pose.keypoints[k].score > ValidThreshold
    IN  /\ Cardinality(connections) = 12
        /\ \A c \in connections :
             (\E l \in surface.lines : l.i = c[1] /\ l.j = c[2])
               <=> (valid(c[1]) /\ valid(c[2]))
        /\ \A l \in surface.lines :
             /\ << l.i, l.j >> \in connections
             /\ l.color = IF l.i = 5 /\ l.j = 6 THEN "#FF0000"
                          ELSE moveNetColors[l.i]
        /\ \A k \in KeypointIdx :
             (\E d \in surface.discs : d.index = k) <=> valid(k)
        /\ \A d \in surface.discs : d.color = moveNetColors[d.index]

\* C17 witness: a drawing of a pose whose left_elbow has score 0.3 exactly:
\* the shoulder bone is there, the bone [5, 7] and the disc 7 are not
C17_Witness ==
  /\ draws >= 1
  /\ drawArgs[1].keypoints[7].score = ValidThreshold
  /\ \E l \in surface.lines : l.i = 5 /\ l.j = 6 /\ l.color = "#FF0000"
  /\ ~\E l \in surface.lines : l.i = 5 /\ l.j = 7
  /\ ~\E d \in surface.discs : d.index = 7

C19_Idempotent ==
  draws >= 1 =>
    /\ surface = firstSurface
    /\ surface = drawPose(drawArgs[1], drawArgs[2], drawArgs[3])

\* C19 witness: two calls on a canvas that showed another drawing of
\* another size before
C19_Witness ==
  /\ draws = MaxDraws
  /\ drawArgs[4].lines # {}
  /\ drawArgs[4].width # surface.width
  /\ surface.lines # {}

\* C22: a displayed (non-null) similarity implies that both poses are
\* non-null: no score of an earlier pair stays on display while a slot's
\* pose is cleared by a new upload whose detection is in flight.
C22_ScoreNeedsBothPoses ==
  similarity # NullNum => (targetPose # Null /\ challengePose # Null)

\* the busy flag of a slot
Busy(isTarget) == IF isTarget THEN detectingTarget ELSE detectingChallenge

\* C23: every detection that is started ends (the estimator answers) and
\* its end, whether a pose, an empty list or a rejection, clears the busy flag
\* of its slot; so in every state where no detection of a slot is in flight
\* the slot's busy flag is false, also after overlapping detections of the
\* slot and after resetGame.
C23_BusyCleared ==
  /\ [](\A isTarget \in BOOLEAN : ~InFlightFor(isTarget) => ~Busy(isTarget))
  /\ [][\A isTarget \in BOOLEAN : EndsIn(isTarget) => ~Busy(isTarget)']_vars
  /\ \A isTarget \in BOOLEAN :
       InFlightFor(isTarget) ~> (~InFlightFor(isTarget) /\ ~Busy(isTarget))

\* C23 witness: two detections of the target slot overlapped and both have
\* ended (the pose is of the older image, stored after the newer image was
\* loaded); the slot is idle
C23_Witness ==
  /\ ~InFlightFor(TRUE)
  /\ ~Busy(TRUE)
  /\ targetImage # Null
  /\ targetPose # Null
  /\ targetPose.id < targetImage.id

\* C21: for a non-empty answer of estimatePoses the stored pose is built
\* from the first estimate only: keypoint i keeps its index and position and
\* gets name i of the 17-entry name table, and a keypoint without a
\* confidence gets score 0, so it is not valid: the scorer does not count it
\* and the renderer draws neither its disc nor a bone that ends at it.
C21_Normalization ==
  storedPose # EmptyPose =>
    LET raw == poses[1]
        unseen == {i \in KeypointIdx : raw.keypoints[i].score = Missing}
    IN  /\ DOMAIN storedPose.keypoints = DOMAIN raw.keypoints
        /\ Cardinality(DOMAIN keypointNames) = 17
        /\ \A i \in DOMAIN raw.keypoints :
             /\ storedPose.keypoints[i].x = raw.keypoints[i].x
             /\ storedPose.keypoints[i].y = raw.keypoints[i].y
             /\ storedPose.keypoints[i].name = keypointNames[i]
             /\ storedPose.keypoints[i].score =
                  IF i \in unseen THEN 0 ELSE raw.keypoints[i].score
        /\ \A i \in unseen :
             /\ ~IsValid(storedPose.keypoints[i])
             /\ \A d \in surface.discs : d.index # i
             /\ \A l \in surface.lines : l.i # i /\ l.j # i
        /\ ValidCount(storedPose) =
             Cardinality({i \in KeypointIdx \ unseen :
                            raw.keypoints[i].score > ValidThreshold})

\* C21 witness: a pose was stored and drawn for an answer of two estimates;
\* the first has a shoulder without a confidence that the second one sees,
\* and seen keypoints that are drawn
C21_Witness ==
  /\ storedPose # EmptyPose
  /\ Len(poses) = 2
  /\ poses[1].keypoints[OddKeypoint].score = Missing
  /\ poses[2].keypoints[OddKeypoint].score > ValidThreshold
  /\ storedPose.keypoints[OddKeypoint].score = 0
  /\ surface.discs # {}
  /\ surface.lines # {}

=============================================================================
